---- MODULE Spec2Model ----
(***************************************************************************)
(* A model of mlflux: the `run` command of src/mlflux/cli/run.py (argument *)
(* parsing, the copy of the project source, the optional image build, the  *)
(* manifest rewrites, the tracking run and the artifact logging) and the   *)
(* log_input_params decorator of src/mlflux/logging.py.                    *)
(*                                                                         *)
(* A -P entry is a sequence of one-character strings, other text a         *)
(* sequence of tokens; a YAML mapping or a Python dict is a function whose *)
(* DOMAIN is its set of keys, so a KeyError is a key outside the DOMAIN.   *)
(***************************************************************************)
EXTENDS Integers, Sequences, FiniteSets, TLC

VARIABLES
    pc,             \* position of the command / of the function under study
    exc,            \* the exception propagating, "none" when there is none
    \* ---- _user_args_to_dict
    arguments,      \* the list of -P entries
    argument_type,  \* "P" or "A"
    idx,            \* number of entries the for loop has consumed
    user_dict,      \* the dict being built
    stderr,         \* what eprint has written
    exit_status,    \* status given to sys.exit, -1 while the process lives
    \* ---- run
    uri,            \* the source directory named on the command line
    entry_point,    \* -e
    fs,             \* the filesystem: path -> file
    fs0,            \* the filesystem when the command started
    dirs,           \* temporary directories that exist
    made,           \* temporary directories ever created
    calls,          \* steps and external calls, in the order issued
    locals,         \* run's local variables src, docker_logs, stdout, stderr
    \* ---- log_input_params
    sig,            \* f's signature: parameter name -> default
    kwargs,         \* the keyword arguments of the call
    logged,         \* mappings given to mlflow.log_params, in order
    f_calls,        \* keyword arguments f was called with, in order
    result          \* what the wrapper returned

argVars == <<arguments, argument_type, idx, user_dict, stderr, exit_status>>
runVars == <<uri, entry_point, fs, fs0, dirs, made, calls, locals>>
logVars == <<sig, kwargs, logged, f_calls, result>>
vars == <<pc, exc, argVars, runVars, logVars>>

(***************************************************************************)
(* Bounds of the model.                                                    *)
(***************************************************************************)
MaxArgs == 3
MaxLen == 2

Chars == {"a", "="}

RECURSIVE SeqsUpTo(_, _)
SeqsUpTo(S, n) ==
    IF n = 0 THEN {<<>>}
    ELSE LET shorter == SeqsUpTo(S, n - 1)
         IN  shorter \cup {Append(s, c) : s \in shorter, c \in S}

Strings == SeqsUpTo(Chars, MaxLen)
ArgLists == SeqsUpTo(Strings, MaxArgs)

(***************************************************************************)
(* str.split(sep, maxsplit): scan left to right, cut at sep while cuts are *)
(* left; a negative maxsplit never runs out.                               *)
(***************************************************************************)
RECURSIVE SplitFrom(_, _, _, _)
SplitFrom(s, sep, maxsplit, cur) ==
    IF s = <<>> THEN <<cur>>
    ELSE IF Head(s) = sep /\ maxsplit # 0
         THEN <<cur>> \o SplitFrom(Tail(s), sep, maxsplit - 1, <<>>)
         ELSE SplitFrom(Tail(s), sep, maxsplit, Append(cur, Head(s)))

StrSplit(s, sep, maxsplit) == SplitFrom(s, sep, maxsplit, <<>>)

\* The split without maxsplit: every "=" cuts.
SplitArgUnlimited(arg) == StrSplit(arg, "=", -1)

\* split = arg.split("=", maxsplit=1)
SplitArg(arg) == StrSplit(arg, "=", 1)

PyTrue == <<"True">>

InvalidFormat(atype, arg) ==
    [fmt  |-> "Invalid format for -%s parameter: '%s'. Use -%s name=value.",
     args |-> <<<<atype>>, arg, <<atype>>>>]

Repeated(name) == [fmt |-> "Repeated parameter: '%s'", args |-> <<name>>]

ExitFailure == 1

\* The flag branch (line 27) and the name=value branch (line 30).
ArgAccepted(split, atype) ==
    \/ Len(split) = 1 /\ atype = "A"
    \/ Len(split) = 2

ArgName(split) == split[1]

ArgValue(split, atype) ==
    IF Len(split) = 1 /\ atype = "A" THEN PyTrue ELSE split[2]

\* The loop without its repeated-name test.
NameTakenNever(name, d) == FALSE

\* name in user_dict
NameTaken(name, d) == name \in DOMAIN d

\* The error branch without sys.exit: the loop goes on to the next entry.
SysExitStays(status) ==
    /\ pc' = "args_loop"
    /\ idx' = idx + 1
    /\ exit_status' = exit_status

\* sys.exit(1): the process ends here with that status.
SysExit(status) ==
    /\ pc' = "exited"
    /\ idx' = idx
    /\ exit_status' = status

\* One iteration of the for loop that stores the entry.
UserArgsStore ==
    /\ pc = "args_loop"
    /\ idx < Len(arguments)
    /\ LET arg   == arguments[idx + 1]
           split == SplitArg(arg)
       IN  /\ ArgAccepted(split, argument_type)
           /\ ~NameTaken(ArgName(split), user_dict)
           /\ user_dict' = [n \in DOMAIN user_dict \cup {ArgName(split)} |->
                              IF n = ArgName(split)
                              THEN ArgValue(split, argument_type)
                              ELSE user_dict[n]]
    /\ idx' = idx + 1
    /\ UNCHANGED <<pc, exc, arguments, argument_type, stderr, exit_status,
                   runVars, logVars>>

\* One iteration that ends in the else branch: eprint, sys.exit(1).
UserArgsInvalid ==
    /\ pc = "args_loop"
    /\ idx < Len(arguments)
    /\ LET arg   == arguments[idx + 1]
           split == SplitArg(arg)
       IN  /\ ~ArgAccepted(split, argument_type)
           /\ stderr' = Append(stderr, InvalidFormat(argument_type, arg))
    /\ SysExit(ExitFailure)
    /\ UNCHANGED <<exc, arguments, argument_type, user_dict, runVars, logVars>>

\* One iteration that finds the name already stored: eprint, sys.exit(1).
UserArgsRepeated ==
    /\ pc = "args_loop"
    /\ idx < Len(arguments)
    /\ LET arg   == arguments[idx + 1]
           split == SplitArg(arg)
       IN  /\ ArgAccepted(split, argument_type)
           /\ NameTaken(ArgName(split), user_dict)
           /\ stderr' = Append(stderr, Repeated(ArgName(split)))
    /\ SysExit(ExitFailure)
    /\ UNCHANGED <<exc, arguments, argument_type, user_dict, runVars, logVars>>

\* The loop is exhausted: return user_dict.
UserArgsReturn ==
    /\ pc = "args_loop"
    /\ idx = Len(arguments)
    /\ pc' = "args_returned"
    /\ UNCHANGED <<exc, argVars, runVars, logVars>>

UserArgsToDict ==
    \/ UserArgsStore
    \/ UserArgsInvalid
    \/ UserArgsRepeated
    \/ UserArgsReturn

(***************************************************************************)
(* The filesystem.  A path is <<directory, name>>; fs maps the paths that  *)
(* exist to their files.  A file is a record tagged by kind: "yaml" (a     *)
(* manifest, data the mapping), "text", "gitignore" (the names it matches) *)
(* or "zip" (the files archived).                                          *)
(***************************************************************************)
None == <<>>

SrcDir == "src"
ProjectDir == "tmp_project"
OutputDir == "tmp_output"

Names == {"MLproject", "Dockerfile", "custom.Dockerfile", ".gitignore", ".git",
          "data.csv", "wrapper.sh", "src.zip", "docker.stdout.txt",
          "stdout.txt", "stderr.txt"}

Exists(f, path) == path \in DOMAIN f

NamesIn(f, dir) == {n \in Names : Exists(f, <<dir, n>>)}

DirExists(dir) == dir = SrcDir \/ dir \in dirs

\* open(path, "w") / write_text: the file is created or replaced.
WriteFile(f, path, file) ==
    [q \in DOMAIN f \cup {path} |-> IF q = path THEN file ELSE f[q]]

\* Removing a directory removes what is under it.
RemoveTree(f, dir) == [q \in {r \in DOMAIN f : r[1] # dir} |-> f[q]]

Text(t) == [kind |-> "text", text |-> t]
Yaml(m) == [kind |-> "yaml", data |-> m]

\* dict with one more (or one replaced) key
DictSet(d, k, v) == [x \in DOMAIN d \cup {k} |-> IF x = k THEN v ELSE d[x]]

(***************************************************************************)
(* The manifests and source trees the command is run on.                   *)
(***************************************************************************)
MainCommand == <<"python main.py">>
TrainCommand == <<"python train.py">>

EntryPoints(k) ==
    CASE k = 1 -> [main |-> [command |-> MainCommand]]
      [] k = 2 -> [main |-> [command |-> MainCommand],
                   train |-> [command |-> TrainCommand]]
      [] k = 3 -> [main |-> [command |-> MainCommand],
                   train |-> [parameters |-> <<"alpha">>]]

DockerEnv(versioned, custom, vols) ==
    LET image == [image |-> IF versioned THEN <<"img", ":", "1.0">> ELSE <<"img">>]
        df    == IF custom THEN DictSet(image, "Dockerfile", <<"custom.Dockerfile">>)
                 ELSE image
    IN  IF vols THEN DictSet(df, "volumes", <<<<"/data", ":/data">>>>) ELSE df

Manifest(hasEnv, versioned, custom, vols, k) ==
    LET base == [name |-> <<"demo">>, entry_points |-> EntryPoints(k)]
    IN  IF hasEnv THEN DictSet(base, "docker_env", DockerEnv(versioned, custom, vols))
        ELSE base

\* The source tree: .git and data.csv always, the rest as chosen.
SourceTree(hasManifest, manifest, hasDockerfile, hasCustom, ignored) ==
    LET f0 == WriteFile(WriteFile(<<>>, <<SrcDir, ".git">>, Text(<<"gitdir">>)),
                        <<SrcDir, "data.csv">>, Text(<<"1,2">>))
        f1 == IF hasManifest
              THEN WriteFile(f0, <<SrcDir, "MLproject">>, Yaml(manifest))
              ELSE f0
        f2 == IF hasDockerfile
              THEN WriteFile(f1, <<SrcDir, "Dockerfile">>, Text(<<"FROM python">>))
              ELSE f1
        f3 == IF hasCustom
              THEN WriteFile(f2, <<SrcDir, "custom.Dockerfile">>, Text(<<"FROM conda">>))
              ELSE f2
    IN  IF ignored = "none" THEN f3
        ELSE WriteFile(f3, <<SrcDir, ".gitignore">>,
                       [kind |-> "gitignore", matches |-> {ignored}])

Uris == {SrcDir, "nowhere"}
EntryPointNames == {"main", "train"}
Uuids == {"uuid1", "uuid2"}

RunParamLists ==
    { <<>>,
      <<<<"a", "=", "a">>>>,
      <<<<"a">>>>,
      <<<<"a", "=">>, <<"a", "=", "a">>>> }

(***************************************************************************)
(* run                                                                      *)
(***************************************************************************)
NoLocals == [src |-> None, docker_logs |-> None, stdout |-> None, stderr |-> None]

Call(op, arg) == [op |-> op, arg |-> arg]

\* An exception caught where it is raised, the step being tried again.
RaiseRetried(e) ==
    /\ exc' = e
    /\ pc' = pc

\* An exception leaves the with block: the temporary directories are cleaned
\* up next.
Raise(e) ==
    /\ exc' = e
    /\ pc' = "cleanup_output"

\* with TemporaryDirectory() as project_dir
RunMakeProjectDir ==
    /\ pc = "args_returned"
    /\ dirs' = dirs \cup {ProjectDir}
    /\ made' = made \cup {ProjectDir}
    /\ pc' = "make_output"
    /\ UNCHANGED <<exc, argVars, uri, entry_point, fs, fs0, calls, locals, logVars>>

\* , TemporaryDirectory() as output_dir
RunMakeOutputDir ==
    /\ pc = "make_output"
    /\ dirs' = dirs \cup {OutputDir}
    /\ made' = made \cup {OutputDir}
    /\ pc' = "copy"
    /\ UNCHANGED <<exc, argVars, uri, entry_point, fs, fs0, calls, locals, logVars>>

\* The names copytree skips in the source directory.
Ignored(f, src_path) ==
    IF Exists(f, <<src_path, ".gitignore">>)
    THEN f[<<src_path, ".gitignore">>].matches \cup {".git"}
    ELSE {}

\* shutil.copytree(src_path, project_path, ignore=ignore, dirs_exist_ok=True)
CopyTree(f, src_path, project_path) ==
    LET copied == NamesIn(f, src_path) \ Ignored(f, src_path)
    IN  [q \in DOMAIN f \cup {<<project_path, n>> : n \in copied} |->
            IF q[1] = project_path /\ q[2] \in copied
            THEN f[<<src_path, q[2]>>]
            ELSE f[q]]

\* shutil.make_archive(output_path / "src", "zip", project_path)
MakeArchive(f, output_path, project_path) ==
    WriteFile(f, <<output_path, "src.zip">>,
              [kind  |-> "zip",
               files |-> [n \in NamesIn(f, project_path) |-> f[<<project_path, n>>]]])

\* _copy_from_uri(uri, project_path, output_path)
CopyFromUri ==
    /\ pc = "copy"
    /\ calls' = Append(calls, Call("copy_from_uri", <<uri>>))
    /\ IF ~DirExists(uri)
       THEN /\ Raise("FileNotFoundError")
            /\ UNCHANGED <<fs, locals>>
       ELSE /\ fs' = MakeArchive(CopyTree(fs, uri, ProjectDir), OutputDir, ProjectDir)
            /\ locals' = [locals EXCEPT !.src = <<OutputDir, "src.zip">>]
            /\ pc' = "docker"
            /\ exc' = exc
    /\ UNCHANGED <<argVars, uri, entry_point, fs0, dirs, made, logVars>>

(***************************************************************************)
(* _setup_docker_image                                                     *)
(***************************************************************************)
HasKey(d, k) == k \in DOMAIN d

\* ":" in tag
HasColon(tag) == \E j \in 1..Len(tag) : tag[j] = ":"

\* The build file taken to be Dockerfile whatever the manifest names.
DockerfileNameFixed(docker_env) == "Dockerfile"

\* try: ml_project["docker_env"]["Dockerfile"] except KeyError: "Dockerfile"
DockerfileName(docker_env) ==
    IF HasKey(docker_env, "Dockerfile") THEN docker_env["Dockerfile"][1]
    ELSE "Dockerfile"

\* (":" not in tag) and dockerfile.exists()
ShouldBuild(f, tag, dockerfile) == ~HasColon(tag) /\ Exists(f, dockerfile)

\* tag += f":{uuid.uuid4()}"
NewTag(tag, uuid) == tag \o <<":", uuid>>

\* What docker_client.images.build may yield as its log stream.
DockerLogs(k) ==
    CASE k = 1 -> <<[stream |-> "Step 1/1 : FROM python"], [aux |-> "sha256:1"],
                    [stream |-> "Successfully built"]>>
      [] k = 2 -> <<[aux |-> "sha256:2"]>>

\* for log in docker_logs: try: f.write(log["stream"]) except KeyError: pass
RECURSIVE Streams(_)
Streams(logs) ==
    IF logs = <<>> THEN <<>>
    ELSE IF HasKey(Head(logs), "stream")
         THEN <<Head(logs).stream>> \o Streams(Tail(logs))
         ELSE Streams(Tail(logs))

\* The manifest taken from the source directory instead of the working copy.
ManifestPathInSource(project_path) == <<SrcDir, "MLproject">>

\* ml_project_path = project_path / "MLproject"
ManifestPath(project_path) == <<project_path, "MLproject">>

SetupDockerImage ==
    /\ pc = "docker"
    /\ LET path == ManifestPath(ProjectDir)
       IN  IF ~Exists(fs, path)
           THEN /\ Raise("FileNotFoundError")
                /\ calls' = Append(calls, Call("setup_docker_image", <<>>))
                /\ UNCHANGED <<fs, locals>>
           ELSE
           LET ml_project == fs[path].data
           IN  IF ~(HasKey(ml_project, "docker_env")
                    /\ HasKey(ml_project.docker_env, "image"))
               THEN /\ Raise("KeyError")
                    /\ calls' = Append(calls, Call("setup_docker_image", <<>>))
                    /\ UNCHANGED <<fs, locals>>
               ELSE
               LET tag        == ml_project.docker_env.image
                   dockerfile == <<ProjectDir, DockerfileName(ml_project.docker_env)>>
               IN  IF ShouldBuild(fs, tag, dockerfile)
                   THEN \E uuid \in Uuids, built \in BOOLEAN, k \in 1..2 :
                        LET new_tag == NewTag(tag, uuid)
                            logs_path == <<OutputDir, "docker.stdout.txt">>
                            written == [ml_project EXCEPT !.docker_env.image = new_tag]
                        IN  /\ calls' = Append(calls,
                                   Call("docker.build",
                                        [path |-> ProjectDir, dockerfile |-> dockerfile[2],
                                         tag |-> new_tag]))
                            /\ IF built
                               THEN /\ fs' = WriteFile(WriteFile(fs, path, Yaml(written)),
                                                       logs_path, Text(Streams(DockerLogs(k))))
                                    /\ locals' = [locals EXCEPT !.docker_logs = logs_path]
                                    /\ pc' = "entrypoint"
                                    /\ exc' = exc
                               ELSE /\ Raise("BuildError")
                                    /\ UNCHANGED <<fs, locals>>
                   ELSE /\ locals' = [locals EXCEPT !.docker_logs = None]
                        /\ pc' = "entrypoint"
                        /\ calls' = Append(calls, Call("setup_docker_image", <<>>))
                        /\ UNCHANGED <<exc, fs>>
    /\ UNCHANGED <<argVars, uri, entry_point, fs0, dirs, made, logVars>>

(***************************************************************************)
(* _setup_entrypoint_output                                                *)
(***************************************************************************)
WrapperSuffix == " $@ 1> >(tee /output/stdout.txt) 2> >(tee /output/stderr.txt >&2)"

\* ml_project["docker_env"].get("volumes", [])
GetVolumes(docker_env) ==
    IF HasKey(docker_env, "volumes") THEN docker_env.volumes ELSE <<>>

\* The volumes list overwritten instead of extended.
VolumesReplaced(volumes, output_path) == <<<<output_path, ":/output">>>>

\* volumes.append(f"{output_path.as_posix()}:/output")
VolumesAppended(volumes, output_path) == Append(volumes, <<output_path, ":/output">>)

SetupEntrypointOutput ==
    /\ pc = "entrypoint"
    /\ LET path == ManifestPath(ProjectDir)
       IN  IF ~Exists(fs, path)
           THEN /\ Raise("FileNotFoundError")
                /\ UNCHANGED <<fs, locals>>
           ELSE
           LET ml_project == fs[path].data
           IN  IF ~HasKey(ml_project, "docker_env")
                  \/ ~HasKey(ml_project, "entry_points")
                  \/ ~HasKey(ml_project.entry_points, entry_point)
                  \/ ~HasKey(ml_project.entry_points[entry_point], "command")
               THEN /\ Raise("KeyError")
                    /\ UNCHANGED <<fs, locals>>
               ELSE
               LET volumes == VolumesAppended(GetVolumes(ml_project.docker_env), OutputDir)
                   command == ml_project.entry_points[entry_point].command
                   env     == DictSet(ml_project.docker_env, "volumes", volumes)
                   written == [ml_project EXCEPT
                                 !.docker_env = env,
                                 !.entry_points[entry_point].command = <<"bash wrapper.sh">>]
               IN  /\ fs' = WriteFile(
                              WriteFile(fs, <<ProjectDir, "wrapper.sh">>,
                                        Text(Append(command, WrapperSuffix))),
                              path, Yaml(written))
                   /\ locals' = [locals EXCEPT !.stdout = <<OutputDir, "stdout.txt">>,
                                               !.stderr = <<OutputDir, "stderr.txt">>]
                   /\ pc' = "mlflow_run"
                   /\ exc' = exc
    /\ calls' = Append(calls, Call("setup_entrypoint_output", <<entry_point>>))
    /\ UNCHANGED <<argVars, uri, entry_point, fs0, dirs, made, logVars>>

(***************************************************************************)
(* The tracking system                                                     *)
(***************************************************************************)
\* An exception inside `with mlflow.start_run(...)`: the run is ended as
\* failed on the way out.
RaiseInRun(after, e) ==
    /\ calls' = Append(after, Call("mlflow.end_run", <<"FAILED">>))
    /\ Raise(e)

\* mlflow.projects.run(uri=project_path, entry_point=..., parameters=params_dict)
\* The project's wrapper.sh tees its output into the mounted /output.
MlflowProjectsRun ==
    /\ pc = "mlflow_run"
    /\ calls' = Append(calls,
                       Call("mlflow.projects.run",
                            [uri |-> ProjectDir, entry_point |-> entry_point,
                             parameters |-> user_dict]))
    /\ \E ran \in BOOLEAN :
         IF ran
         THEN /\ fs' = WriteFile(WriteFile(fs, <<OutputDir, "stdout.txt">>, Text(<<"out">>)),
                                 <<OutputDir, "stderr.txt">>, Text(<<"err">>))
              /\ pc' = "start_run"
              /\ exc' = exc
         ELSE /\ Raise("ExecutionException")
              /\ fs' = fs
    /\ UNCHANGED <<argVars, uri, entry_point, fs0, dirs, made, locals, logVars>>

\* with mlflow.start_run(mlflow_run.run_id):
MlflowStartRun ==
    /\ pc = "start_run"
    /\ calls' = Append(calls, Call("mlflow.start_run", <<"run_id">>))
    /\ \E started \in BOOLEAN :
         IF started
         THEN pc' = "log_src" /\ exc' = exc
         ELSE Raise("MlflowException")
    /\ UNCHANGED <<argVars, uri, entry_point, fs, fs0, dirs, made, locals, logVars>>

\* mlflow.log_artifact(local.as_posix(), artifact_path): as_posix is looked up
\* on the local first, and None has no such attribute.
LogArtifact(at, local, artifact_path, next) ==
    /\ pc = at
    /\ IF local = None
       THEN RaiseInRun(calls, "AttributeError")
       ELSE \E logged_ok \in BOOLEAN :
            LET call == Call("mlflow.log_artifact",
                             [local_path |-> local, artifact_path |-> artifact_path])
            IN  IF logged_ok
                THEN /\ calls' = Append(calls, call)
                     /\ pc' = next
                     /\ exc' = exc
                ELSE RaiseInRun(Append(calls, call), "MlflowException")
    /\ UNCHANGED <<argVars, uri, entry_point, fs, fs0, dirs, made, locals, logVars>>

LogArtifactSrc == LogArtifact("log_src", locals.src, "", "log_docker")

LogArtifactDockerLogs == LogArtifact("log_docker", locals.docker_logs, "logs", "log_stdout")

LogArtifactStdout == LogArtifact("log_stdout", locals.stdout, "logs", "log_stderr")

LogArtifactStderr == LogArtifact("log_stderr", locals.stderr, "logs", "end_run")

\* The start_run block is left normally.
MlflowEndRun ==
    /\ pc = "end_run"
    /\ calls' = Append(calls, Call("mlflow.end_run", <<"FINISHED">>))
    /\ pc' = "cleanup_output"
    /\ UNCHANGED <<exc, argVars, uri, entry_point, fs, fs0, dirs, made, locals, logVars>>

(***************************************************************************)
(* Leaving the TemporaryDirectory blocks, innermost first.                 *)
(***************************************************************************)
\* A directory made with mkdtemp: leaving the block removes nothing.
CleanupKeeps(dir, next) ==
    /\ pc' = next
    /\ UNCHANGED <<dirs, fs>>

\* TemporaryDirectory.__exit__: the directory and its contents are removed.
Cleanup(dir, next) ==
    /\ dirs' = dirs \ {dir}
    /\ fs' = RemoveTree(fs, dir)
    /\ pc' = next

CleanupOutputDir ==
    /\ pc = "cleanup_output"
    /\ Cleanup(OutputDir, "cleanup_project")
    /\ UNCHANGED <<exc, argVars, uri, entry_point, fs0, made, calls, locals, logVars>>

CleanupProjectDir ==
    /\ pc = "cleanup_project"
    /\ Cleanup(ProjectDir, "done")
    /\ UNCHANGED <<exc, argVars, uri, entry_point, fs0, made, calls, locals, logVars>>

Run ==
    \/ UserArgsStore
    \/ UserArgsInvalid
    \/ UserArgsRepeated
    \/ UserArgsReturn
    \/ RunMakeProjectDir
    \/ RunMakeOutputDir
    \/ CopyFromUri
    \/ SetupDockerImage
    \/ SetupEntrypointOutput
    \/ MlflowProjectsRun
    \/ MlflowStartRun
    \/ LogArtifactSrc
    \/ LogArtifactDockerLogs
    \/ LogArtifactStdout
    \/ LogArtifactStderr
    \/ MlflowEndRun
    \/ CleanupOutputDir
    \/ CleanupProjectDir

(***************************************************************************)
(* Initial states                                                          *)
(***************************************************************************)
NoLog == /\ sig = <<>>
         /\ kwargs = <<>>
         /\ logged = <<>>
         /\ f_calls = <<>>
         /\ result = None

NoRun == /\ uri = SrcDir
         /\ entry_point = "main"
         /\ fs = <<>>
         /\ fs0 = <<>>
         /\ dirs = {}
         /\ made = {}
         /\ calls = <<>>
         /\ locals = NoLocals

ArgsStart(lists, types) ==
    /\ arguments \in lists
    /\ argument_type \in types
    /\ idx = 0
    /\ user_dict = <<>>
    /\ stderr = <<>>
    /\ exit_status = -1

\* _user_args_to_dict called on its own, with either argument type.
InitArgs ==
    /\ pc = "args_loop"
    /\ exc = "none"
    /\ ArgsStart(ArgLists, {"P", "A"})
    /\ NoRun
    /\ NoLog

SpecArgs == InitArgs /\ [][UserArgsToDict]_vars

\* The run command: params_dict = _user_args_to_dict(param_list) comes first.
InitRun ==
    /\ pc = "args_loop"
    /\ exc = "none"
    /\ ArgsStart(RunParamLists, {"P"})
    /\ uri \in Uris
    /\ entry_point \in EntryPointNames
    /\ \E hasManifest, hasEnv, versioned, custom, vols, hasDockerfile, hasCustom \in BOOLEAN,
          k \in 1..3, ignored \in {"none", "Dockerfile", "data.csv"} :
          /\ hasManifest \/ (hasEnv /\ versioned /\ custom /\ vols /\ k = 1)
          /\ hasEnv \/ (versioned /\ custom /\ vols)
          /\ fs = SourceTree(hasManifest, Manifest(hasEnv, versioned, custom, vols, k),
                             hasDockerfile, hasCustom, ignored)
    /\ fs0 = fs
    /\ dirs = {}
    /\ made = {}
    /\ calls = <<>>
    /\ locals = NoLocals
    /\ NoLog

SpecRun == InitRun /\ [][Run]_vars

(***************************************************************************)
(* log_input_params                                                        *)
(***************************************************************************)
ParamNames == {"x", "y"}
KwargNames == {"x", "y", "z"}
Empty == "inspect.Parameter.empty"
Defaults == {Empty, "1", "2"}
Values == {"1", "3"}

\* {k: v.default for k, v in inspect.signature(f).parameters.items()}
DefaultParams(signature) == [k \in DOMAIN signature |-> signature[k]]

\* {**a, **b}: b's entries replace a's
DictMerge(a, b) ==
    [k \in DOMAIN a \cup DOMAIN b |-> IF k \in DOMAIN b THEN b[k] ELSE a[k]]

\* Python binds a call f(**kw): every keyword names a parameter and every
\* parameter without a default is given.
Binds(signature, kw) ==
    /\ DOMAIN kw \subseteq DOMAIN signature
    /\ \A p \in DOMAIN signature : signature[p] = Empty => p \in DOMAIN kw

\* f returns the arguments it was entered with.
FResult(signature, kw) ==
    [p \in DOMAIN signature |-> IF p \in DOMAIN kw THEN kw[p] ELSE signature[p]]

\* default_params, params, mlflow.log_params(params)
WrapperLogParams ==
    /\ pc = "wrapper"
    /\ logged' = Append(logged, DictMerge(DefaultParams(sig), kwargs))
    /\ \E accepted \in BOOLEAN :
         IF accepted
         THEN pc' = "call_f" /\ exc' = exc
         ELSE pc' = "raised" /\ exc' = "MlflowException"
    /\ UNCHANGED <<argVars, runVars, sig, kwargs, f_calls, result>>

\* f called with the logged mapping, defaults included.
CallArgsWithDefaults == logged[Len(logged)]

\* the keyword arguments of f(**kwargs)
CallArgs == kwargs

\* return f(**kwargs)
WrapperCallF ==
    /\ pc = "call_f"
    /\ f_calls' = Append(f_calls, CallArgs)
    /\ IF Binds(sig, CallArgs)
       THEN /\ result' = FResult(sig, CallArgs)
            /\ pc' = "returned"
            /\ exc' = exc
       ELSE /\ result' = result
            /\ pc' = "raised"
            /\ exc' = "TypeError"
    /\ UNCHANGED <<argVars, runVars, sig, kwargs, logged>>

Wrapper ==
    \/ WrapperLogParams
    \/ WrapperCallF

InitLog ==
    /\ pc = "wrapper"
    /\ exc = "none"
    /\ ArgsStart({<<>>}, {"P"})
    /\ NoRun
    /\ \E D \in SUBSET ParamNames : sig \in [D -> Defaults]
    /\ \E D \in SUBSET KwargNames : kwargs \in [D -> Values]
    /\ logged = <<>>
    /\ f_calls = <<>>
    /\ result = None

SpecLog == InitLog /\ [][Wrapper]_vars

(***************************************************************************)
(* What the properties below say about an argument list, read off the      *)
(* entries themselves rather than off the loop.                            *)
(***************************************************************************)
HasEq(s) == \E j \in 1..Len(s) : s[j] = "="

FirstEq(s) == CHOOSE j \in 1..Len(s) : s[j] = "=" /\ \A k \in 1..(j - 1) : s[k] # "="

NameOf(s) == SubSeq(s, 1, FirstEq(s) - 1)

ValueOf(s) == SubSeq(s, FirstEq(s) + 1, Len(s))

WellFormed(args) ==
    /\ \A j \in 1..Len(args) : HasEq(args[j])
    /\ \A j, k \in 1..Len(args) : j # k => NameOf(args[j]) # NameOf(args[k])

Offending(args, j) ==
    \/ ~HasEq(args[j])
    \/ \E k \in 1..(j - 1) : HasEq(args[k]) /\ NameOf(args[k]) = NameOf(args[j])

HasOffending(args) == \E j \in 1..Len(args) : Offending(args, j)

FirstOffending(args) ==
    CHOOSE j \in 1..Len(args) :
        Offending(args, j) /\ \A k \in 1..(j - 1) : ~Offending(args, k)

ExpectedMessage(args) ==
    LET bad == args[FirstOffending(args)]
    IN  IF ~HasEq(bad) THEN InvalidFormat("P", bad) ELSE Repeated(NameOf(bad))

Terminated == pc \in {"args_returned", "exited"}

\* C1: a list whose entries all contain '=' and whose names (the text before
\* the first '=') are pairwise distinct is returned as a mapping with exactly
\* one key per entry, the name, mapped to all the text after the first '=';
\* the empty list gives the empty mapping.
C1_WellFormedArgsParse ==
    (Terminated /\ WellFormed(arguments)) =>
        /\ pc = "args_returned"
        /\ DOMAIN user_dict = {NameOf(arguments[j]) : j \in 1..Len(arguments)}
        /\ Cardinality(DOMAIN user_dict) = Len(arguments)
        /\ \A j \in 1..Len(arguments) :
               user_dict[NameOf(arguments[j])] = ValueOf(arguments[j])

\* Two entries parsed, one with an empty name and a value that is itself "=".
C1_Witness ==
    /\ pc = "args_returned"
    /\ Len(arguments) = 2
    /\ WellFormed(arguments)
    /\ \E j \in 1..2 : NameOf(arguments[j]) = <<>> /\ HasEq(ValueOf(arguments[j]))

\* C2: with argument type "P" the process exits with status 1, after one
\* message on standard error, exactly when some entry has no '=' or repeats an
\* earlier name; the message is the one for the first such entry, and nothing
\* is returned.
C2_ExitsExactlyOnBadArgs ==
    argument_type = "P" =>
        /\ pc = "exited" =>
               /\ HasOffending(arguments)
               /\ exit_status = 1
               /\ stderr = <<ExpectedMessage(arguments)>>
        /\ pc = "args_returned" =>
               /\ ~HasOffending(arguments)
               /\ stderr = <<>>
               /\ exit_status = -1
        /\ pc = "args_loop" =>
               /\ stderr = <<>>
               /\ exit_status = -1
               /\ \A j \in 1..idx : ~Offending(arguments, j)

\* A repeated name at the second entry is reported although the third entry
\* is malformed.
C2_Witness ==
    /\ pc = "exited"
    /\ argument_type = "P"
    /\ Len(arguments) = 3
    /\ FirstOffending(arguments) = 2
    /\ HasEq(arguments[2])
    /\ ~HasEq(arguments[3])
    /\ stderr = <<Repeated(NameOf(arguments[2]))>>

(***************************************************************************)
(* The run command                                                         *)
(***************************************************************************)
Ops(op) == {j \in 1..Len(calls) : calls[j].op = op}

Built == Ops("docker.build") # {}

Attached(path) ==
    \E j \in Ops("mlflow.log_artifact") : calls[j].arg.local_path = path

\* C3: given a malformed or repeated -P entry the command exits at once: no
\* temporary directory is ever created, no file is copied or written, no image
\* is built and the tracking system is never called; the message on standard
\* error is all that happens.
C3_BadArgsExitBeforeAnyEffect ==
    /\ HasOffending(arguments) =>
           /\ pc \in {"args_loop", "exited"}
           /\ made = {}
           /\ dirs = {}
           /\ fs = fs0
           /\ calls = <<>>
    /\ pc = "exited" =>
           /\ HasOffending(arguments)
           /\ exit_status = 1
           /\ Len(stderr) = 1

\* The command has exited on a repeated name, on a source tree that exists.
C3_Witness ==
    /\ pc = "exited"
    /\ Len(arguments) = 2
    /\ uri = SrcDir
    /\ stderr = <<Repeated(<<"a">>)>>
    /\ made = {}

\* C4: a run that builds no image, and in which the tracking system's project
\* runner is invoked and the tracking system raises nothing, ends without
\* failure with the source archive and the stdout and stderr logs attached.
C4_RunWithoutBuildCompletes ==
    (/\ pc = "done"
     /\ ~Built
     /\ Ops("mlflow.projects.run") # {}
     /\ exc \notin {"ExecutionException", "MlflowException"}) =>
        /\ exc = "none"
        /\ Attached(<<OutputDir, "src.zip">>)
        /\ Attached(<<OutputDir, "stdout.txt">>)
        /\ Attached(<<OutputDir, "stderr.txt">>)

\* C5: once the command has ended, on success or after any failure inside the
\* with block, neither temporary directory exists and nothing is left of
\* their contents.
C5_TempDirsRemovedOnExit ==
    pc = "done" =>
        /\ made = {ProjectDir, OutputDir}
        /\ dirs = {}
        /\ \A q \in DOMAIN fs : q[1] \notin {ProjectDir, OutputDir}

\* The command ended on a failed image build, after files were copied.
C5_Witness ==
    /\ pc = "done"
    /\ exc = "BuildError"
    /\ Built
    /\ made = {ProjectDir, OutputDir}
    /\ dirs = {}

Rank(op) ==
    CASE op = "copy_from_uri" -> 1
      [] op = "setup_docker_image" -> 2
      [] op = "docker.build" -> 3
      [] op = "setup_entrypoint_output" -> 4
      [] op = "mlflow.projects.run" -> 5
      [] op = "mlflow.start_run" -> 6
      [] op = "mlflow.log_artifact" -> 7
      [] op = "mlflow.end_run" -> 8

InOrder ==
    /\ \A j, k \in 1..Len(calls) :
           j < k => \/ Rank(calls[j].op) < Rank(calls[k].op)
                    \/ /\ calls[j].op = "mlflow.log_artifact"
                       /\ calls[k].op = "mlflow.log_artifact"
                       /\ calls[j].arg.local_path # calls[k].arg.local_path
    /\ exc # "none" => pc \in {"cleanup_output", "cleanup_project", "done"}

\* C6: the steps are issued in the order copy, build decision (and build),
\* entry-point rewrite, tracking run, artifact logging; each step and each
\* external call is issued at most once; and once a step has failed no
\* further step or call is issued.
C6_StepsInOrderOnceNoRetry ==
    /\ []InOrder
    /\ [][exc # "none" => calls' = calls /\ exc' = exc]_vars

\* A complete run: every step and every external call was issued.
C6_Witness ==
    /\ pc = "done"
    /\ exc = "none"
    /\ Built
    /\ Cardinality(Ops("mlflow.log_artifact")) = 4
    /\ Ops("mlflow.end_run") # {}

\* The manifest _setup_docker_image is about to read, and what the claim says
\* of it.
ManifestFile == <<ProjectDir, "MLproject">>

BuildFile(env) ==
    IF "Dockerfile" \in DOMAIN env THEN env["Dockerfile"][1] ELSE "Dockerfile"

BuildWanted ==
    /\ ManifestFile \in DOMAIN fs
    /\ "docker_env" \in DOMAIN fs[ManifestFile].data
    /\ "image" \in DOMAIN fs[ManifestFile].data.docker_env
    /\ \A j \in 1..Len(fs[ManifestFile].data.docker_env.image) :
           fs[ManifestFile].data.docker_env.image[j] # ":"
    /\ <<ProjectDir, BuildFile(fs[ManifestFile].data.docker_env)>> \in DOMAIN fs

DockerStep ==
    LET asked == \E j \in 1..Len(calls') : calls'[j].op = "docker.build"
        logs  == <<OutputDir, "docker.stdout.txt">>
    IN  /\ asked <=> BuildWanted
        /\ (BuildWanted /\ pc' = "entrypoint") =>
               LET old == fs[ManifestFile].data
                   new == fs'[ManifestFile].data
               IN  /\ \E u \in Uuids :
                          new.docker_env.image = old.docker_env.image \o <<":", u>>
                   /\ DOMAIN new = DOMAIN old
                   /\ DOMAIN new.docker_env = DOMAIN old.docker_env
                   /\ \A key \in DOMAIN old \ {"docker_env"} : new[key] = old[key]
                   /\ \A key \in DOMAIN old.docker_env \ {"image"} :
                          new.docker_env[key] = old.docker_env[key]
                   /\ logs \in DOMAIN fs'
                   /\ locals'.docker_logs = logs
        /\ ~BuildWanted =>
               /\ fs' = fs
               /\ pc' = "entrypoint" => locals'.docker_logs = None

\* C7: _setup_docker_image asks for a build exactly when the image has no ':'
\* and the build file (docker_env.Dockerfile if present, else Dockerfile)
\* exists; when it then returns, the manifest has been written back with the
\* image set to the old tag, ':' and a new id, nothing else in it changed, and
\* the build-log path is returned; otherwise the manifest is untouched, no
\* build log is created and no path is returned.
C7_BuildExactlyWhenUntaggedAndBuildFile ==
    [][(pc = "docker" /\ pc' # "docker") => DockerStep]_vars

\* An image was built from the build file named by docker_env.Dockerfile.
C7_Witness ==
    /\ pc = "entrypoint"
    /\ Built
    /\ \E j \in Ops("docker.build") : calls[j].arg.dockerfile = "custom.Dockerfile"
    /\ locals.docker_logs = <<OutputDir, "docker.stdout.txt">>
    /\ HasColon(fs[ManifestFile].data.docker_env.image)

EntrypointStep ==
    LET old     == fs[ManifestFile].data
        wrapper == <<ProjectDir, "wrapper.sh">>
        e       == entry_point
    IN  /\ pc' = "mlflow_run" =>
               LET new == fs'[ManifestFile].data
                   cmd == old.entry_points[e].command
               IN  /\ new.entry_points[e].command = <<"bash wrapper.sh">>
                   /\ wrapper \in DOMAIN fs'
                   /\ SubSeq(fs'[wrapper].text, 1, Len(cmd)) = cmd
                   /\ new.docker_env.volumes =
                          (IF "volumes" \in DOMAIN old.docker_env
                           THEN old.docker_env.volumes ELSE <<>>)
                          \o <<<<OutputDir, ":/output">>>>
                   /\ DOMAIN new = DOMAIN old
                   /\ \A key \in DOMAIN old \ {"docker_env", "entry_points"} :
                          new[key] = old[key]
                   /\ DOMAIN new.docker_env = DOMAIN old.docker_env \cup {"volumes"}
                   /\ \A key \in DOMAIN old.docker_env \ {"volumes"} :
                          new.docker_env[key] = old.docker_env[key]
                   /\ DOMAIN new.entry_points = DOMAIN old.entry_points
                   /\ \A o \in DOMAIN old.entry_points \ {e} :
                          new.entry_points[o] = old.entry_points[o]
                   /\ DOMAIN fs' = DOMAIN fs \cup {wrapper}
                   /\ \A q \in DOMAIN fs \ {ManifestFile, wrapper} : fs'[q] = fs[q]
        /\ e \notin DOMAIN old.entry_points =>
               /\ pc' # "mlflow_run"
               /\ exc' # "none"
               /\ fs' = fs

\* C8: when _setup_entrypoint_output succeeds for entry point e, e's command
\* is 'bash wrapper.sh', wrapper.sh begins with e's old command, the volumes
\* list is the old one (empty if absent) with one entry mounting the output
\* directory at /output appended, and nothing else in the manifest changed;
\* when e is no entry point the call fails having written neither file.
C8_EntrypointRewriteFrame ==
    [][(pc = "entrypoint" /\ pc' # "entrypoint") => EntrypointStep]_vars

\* The train entry point was wrapped in a manifest that already had a volume.
C8_Witness ==
    /\ pc = "mlflow_run"
    /\ entry_point = "train"
    /\ Len(fs[ManifestFile].data.docker_env.volumes) = 2
    /\ fs[ManifestFile].data.entry_points.main.command = MainCommand
    /\ fs[<<ProjectDir, "wrapper.sh">>].text[1] = TrainCommand[1]

\* C10: no file of the source directory is ever created, changed or removed;
\* everything the command writes lies in its two temporary directories; and
\* the archived manifest is the source's manifest as it was when the command
\* started.
C10_SourceOnlyRead ==
    /\ \A q \in DOMAIN fs0 : q \in DOMAIN fs /\ fs[q] = fs0[q]
    /\ \A q \in DOMAIN fs : q \in DOMAIN fs0 \/ q[1] \in dirs
    /\ \A q \in DOMAIN fs : q[1] \in {ProjectDir, OutputDir} => q[1] \in made
    /\ (<<OutputDir, "src.zip">> \in DOMAIN fs
        /\ "MLproject" \in DOMAIN fs[<<OutputDir, "src.zip">>].files) =>
           fs[<<OutputDir, "src.zip">>].files["MLproject"] = fs0[<<SrcDir, "MLproject">>]

\* Both rewrites have changed the working copy of the manifest; the archive
\* and the source still hold the original.
C10_Witness ==
    /\ pc = "log_src"
    /\ Built
    /\ fs[ManifestFile] # fs0[<<SrcDir, "MLproject">>]
    /\ fs[<<OutputDir, "src.zip">>].files["MLproject"] = fs0[<<SrcDir, "MLproject">>]
    /\ <<ProjectDir, "wrapper.sh">> \in DOMAIN fs

(***************************************************************************)
(* log_input_params                                                        *)
(***************************************************************************)
\* C9: the wrapper logs once, before f runs, the mapping whose keys are f's
\* parameter names and the keyword names, each valued by the keyword argument
\* if given and else by the parameter's default; it then calls f once with
\* the keyword arguments alone and returns what f returns.
C9_LogsMergedParamsThenCallsF ==
    /\ Len(logged) <= 1
    /\ Len(f_calls) <= 1
    /\ Len(f_calls) = 1 => Len(logged) = 1
    /\ pc # "wrapper" =>
           /\ Len(logged) = 1
           /\ DOMAIN logged[1] = DOMAIN sig \cup DOMAIN kwargs
           /\ \A k \in DOMAIN logged[1] :
                  logged[1][k] = IF k \in DOMAIN kwargs THEN kwargs[k] ELSE sig[k]
    /\ Len(f_calls) = 1 => f_calls[1] = kwargs
    /\ pc = "returned" =>
           /\ Len(f_calls) = 1
           /\ DOMAIN result = DOMAIN sig
           /\ \A p \in DOMAIN sig :
                  result[p] = IF p \in DOMAIN kwargs THEN kwargs[p] ELSE sig[p]

\* f(x, y=2) called with x alone: the default of y is logged, not passed.
C9_Witness ==
    /\ pc = "returned"
    /\ DOMAIN sig = {"x", "y"}
    /\ sig["x"] = Empty
    /\ sig["y"] = "2"
    /\ DOMAIN kwargs = {"x"}
    /\ logged = <<[x |-> kwargs["x"], y |-> "2"]>>
    /\ f_calls = <<kwargs>>

====
